---- MODULE Spec2Model ----
(***************************************************************************)
(* Fitness-tracker calculator (homework.py): InfoMessage, Training and its *)
(* subclasses Running, SportsWalking, Swimming, the WORKOUT_TYPE table,    *)
(* read_package, main and the __main__ driver loop.                        *)
(*                                                                         *)
(* Numbers.  Python evaluates the formulas in binary floating point.  The  *)
(* model evaluates them in exact rational arithmetic: a number is a record *)
(* [n |-> numerator, d |-> denominator] in lowest terms with d > 0.  The   *)
(* two agree up to floating-point rounding, which is far below the three   *)
(* decimals that get_message prints for the inputs enumerated here.        *)
(*                                                                         *)
(* Exceptions.  A call either returns, [exc |-> "None", val |-> v], or     *)
(* raises, [exc |-> name, ...]; a raising call has no val field at all.    *)
(*                                                                         *)
(* Strings.  The literals of get_message and of the ValueError message are *)
(* Cyrillic in the source; module strings are ASCII, so the literals are   *)
(* written in English with the same punctuation and field order.           *)
(***************************************************************************)
EXTENDS Integers, Sequences, FiniteSets, TLC

----------------------------------------------------------------------------
(* Bounds of the model *)

\* longest argument list handed to read_package
MaxArgs == 6
\* most method calls a client makes on one instance
MaxCalls == 3
\* most packages in the driver's list
MaxPackages == 3

----------------------------------------------------------------------------
(* Exact arithmetic standing for Python's float arithmetic *)

\* Each operator below binds its operands once, as the values v[1], v[2],
\* before it computes with them: the operands are evaluated a single time,
\* as the operands of a Python operator are.

Abs(i) == IF i < 0 THEN -i ELSE i

RECURSIVE Gcd(_, _)
Gcd(a, b) == IF b = 0 THEN a ELSE Gcd(b, a % b)

\* the number n/d in lowest terms, d # 0
Q(n, d) ==
    CHOOSE q \in
        {[n |-> (IF v[2] < 0 THEN -1 ELSE 1)
                    * (v[1] \div Gcd(Abs(v[1]), Abs(v[2]))),
          d |-> Abs(v[2]) \div Gcd(Abs(v[1]), Abs(v[2]))] :
            v \in {<<n, d>>}} : TRUE

Num(i) == [n |-> i, d |-> 1]

\* a * b; common factors are cancelled before the products are formed
Mul(a, b) ==
    CHOOSE q \in
        {Q((v[1].n \div g[1]) * (v[2].n \div g[2]),
           (v[1].d \div g[2]) * (v[2].d \div g[1])) :
            v \in {<<a, b>>},
            g \in {<<Gcd(Abs(a.n), b.d),
                     Gcd(Abs(b.n), a.d)>>}} : TRUE

\* a + b over the least common denominator
Add(a, b) ==
    CHOOSE q \in
        {Q(v[1].n * (v[2].d \div g) + v[2].n * (v[1].d \div g),
           (v[1].d \div g) * v[2].d) :
            v \in {<<a, b>>}, g \in {Gcd(a.d, b.d)}} : TRUE

\* a - b over the least common denominator
Sub(a, b) ==
    CHOOSE q \in
        {Q(v[1].n * (v[2].d \div g) - v[2].n * (v[1].d \div g),
           (v[1].d \div g) * v[2].d) :
            v \in {<<a, b>>}, g \in {Gcd(a.d, b.d)}} : TRUE

Ok(v) == [exc |-> "None", val |-> v]
Raise(e) == [exc |-> e]
IsOk(r) == r.exc = "None"

\* a / b : ZeroDivisionError when b == 0
TrueDiv(a, b) ==
    CHOOSE r \in
        {IF v[2].n = 0 THEN Raise("ZeroDivisionError")
         ELSE Ok(Mul(v[1], Q(v[2].d, v[2].n))) :
            v \in {<<a, b>>}} : TRUE

\* a // b : the floor of the quotient, ZeroDivisionError when b == 0
FloorDiv(a, b) ==
    CHOOSE r \in
        {IF ~IsOk(t) THEN t ELSE Ok(Num(t.val.n \div t.val.d)) :
            t \in {TrueDiv(a, b)}} : TRUE

\* a ** p for a small non-negative integer power p
RECURSIVE Pow(_, _)
Pow(a, p) == IF p = 0 THEN Num(1) ELSE Mul(a, Pow(a, p - 1))

\* the digits of format(x, '.3f') for the thousandths t of |x|
Digits3(t) ==
    ToString(t \div 1000) \o "."
        \o (IF t % 1000 < 10 THEN "00" ELSE IF t % 1000 < 100 THEN "0" ELSE "")
        \o ToString(t % 1000)

\* |v| in thousandths, rounded to the nearest, a tie going to the even one
Thousandths(v) ==
    LET m == Abs(v.n) * 1000
        f == m \div v.d
        r2 == 2 * (m % v.d)
    IN  IF r2 > v.d \/ (r2 = v.d /\ f % 2 = 1) THEN f + 1 ELSE f

\* format(x, '.3f'): sign, integer part, '.', three digits
Fmt3(x) ==
    CHOOSE str \in
        {(IF v.n < 0 THEN "-" ELSE "") \o Digits3(Thousandths(v)) :
            v \in {x}} : TRUE

----------------------------------------------------------------------------
(* Classes: bases, class attributes, methods, looked up along the MRO *)

Classes == {"Training", "Running", "SportsWalking", "Swimming"}

\* the base class of each class ("object" ends the chain)
Base(cls) == IF cls = "Training" THEN "object" ELSE "Training"

\* the attributes each class body assigns; the decimal literals are written
\* in lowest terms: 0.65 = 13/20, 0.035 = 7/200, 0.029 = 29/1000,
\* 1.38 = 69/50, 1.1 = 11/10
ClassDict(cls) ==
    CASE cls = "Training" ->
            [LEN_STEP |-> [n |-> 13, d |-> 20],
             M_IN_KM |-> [n |-> 1000, d |-> 1],
             M_IN_HOUR |-> [n |-> 60, d |-> 1]]
      [] cls = "Running" ->
            [CAL_SPEED_FACTOR |-> [n |-> 18, d |-> 1],
             CAL_SPEED_SHIFT |-> [n |-> 20, d |-> 1]]
      [] cls = "SportsWalking" ->
            [CAL_WEIGHT_FACTOR |-> [n |-> 7, d |-> 200],
             CAL_SPEED_POWER |-> [n |-> 2, d |-> 1],
             CAL_SPEED_FACTOR |-> [n |-> 29, d |-> 1000]]
      [] cls = "Swimming" ->
            [LEN_STEP |-> [n |-> 69, d |-> 50],
             CAL_SPEED_SHIFT |-> [n |-> 11, d |-> 10],
             CAL_SPEED_FACTOR |-> [n |-> 2, d |-> 1]]

\* the methods each class body defines
MethodsOf(cls) ==
    CASE cls = "Training" ->
            {"__init__", "get_distance", "get_mean_speed",
             "get_spent_calories", "show_training_info"}
      [] cls = "Running" -> {"get_spent_calories"}
      [] cls = "SportsWalking" -> {"__init__", "get_spent_calories"}
      [] cls = "Swimming" ->
            {"__init__", "get_mean_speed", "get_spent_calories"}

\* self.NAME for a class attribute: the first class of the MRO that has it
RECURSIVE ClassAttr(_, _)
ClassAttr(cls, name) ==
    IF name \in DOMAIN ClassDict(cls) THEN ClassDict(cls)[name]
    ELSE ClassAttr(Base(cls), name)

\* the class whose definition of method m an instance of cls runs
RECURSIVE Resolve(_, _)
Resolve(cls, m) ==
    IF m \in MethodsOf(cls) THEN cls ELSE Resolve(Base(cls), m)

\* type(self).__name__
TypeName(self) == self.cls

----------------------------------------------------------------------------
(* Training and its subclasses *)

\* faulty variant: Swimming.__init__ takes count_pool before length_pool
InitParams_Swapped(cls) ==
    CASE Resolve(cls, "__init__") = "Training" ->
            <<"action", "duration", "weight">>
      [] Resolve(cls, "__init__") = "SportsWalking" ->
            <<"action", "duration", "weight", "height">>
      [] Resolve(cls, "__init__") = "Swimming" ->
            <<"action", "duration", "weight", "count_pool", "length_pool">>

\* the parameters of cls.__init__ after self, in order; SportsWalking and
\* Swimming pass the first three to super().__init__ and keep the rest
InitParams(cls) ==
    CASE Resolve(cls, "__init__") = "Training" ->
            <<"action", "duration", "weight">>
      [] Resolve(cls, "__init__") = "SportsWalking" ->
            <<"action", "duration", "weight", "height">>
      [] Resolve(cls, "__init__") = "Swimming" ->
            <<"action", "duration", "weight", "length_pool", "count_pool">>

\* The local variables of a method are bound once, as the single element
\* of a set, to the value of their right-hand side; `result` is what the
\* method returns or raises.

\* cls(*data): each positional argument is stored in the field of the
\* parameter at its position; a wrong number of arguments is a TypeError
New(cls, data) ==
    CHOOSE result \in
        {IF Len(data) # Len(params) THEN Raise("TypeError")
         ELSE Ok([f \in {"cls"} \cup {params[i] : i \in 1..Len(params)} |->
                    IF f = "cls" THEN cls
                    ELSE data[CHOOSE i \in 1..Len(params) : params[i] = f]]) :
            params \in {InitParams(cls)}} : TRUE

\* faulty variant: the step length is read from Training, not from self
Training_get_distance_BaseStep(self) ==
    CHOOSE result \in
        {TrueDiv(distance_in_meters, ClassAttr(self.cls, "M_IN_KM")) :
            distance_in_meters \in {Mul(self.action, ClassDict("Training").LEN_STEP)}} : TRUE

Training_get_distance(self) ==
    CHOOSE result \in
        {TrueDiv(distance_in_meters, ClassAttr(self.cls, "M_IN_KM")) :
            distance_in_meters \in {Mul(self.action, ClassAttr(self.cls, "LEN_STEP"))}} : TRUE

get_distance(self) == Training_get_distance(self)

\* faulty variant: a zero duration yields the sentinel 0 instead of raising
Training_get_mean_speed_Sentinel(self) ==
    CHOOSE result \in
        {IF ~IsOk(distance) THEN distance
         ELSE IF self.duration.n = 0 THEN Ok(Num(0))
         ELSE TrueDiv(distance.val, self.duration) :
            distance \in {get_distance(self)}} : TRUE

Training_get_mean_speed(self) ==
    CHOOSE result \in
        {IF ~IsOk(distance) THEN distance
         ELSE TrueDiv(distance.val, self.duration) :
            distance \in {get_distance(self)}} : TRUE

\* faulty variant: Swimming keeps the inherited speed formula
Swimming_get_mean_speed_Inherited(self) ==
    CHOOSE result \in
        {IF ~IsOk(distance) THEN distance
         ELSE TrueDiv(distance.val, self.duration) :
            distance \in {get_distance(self)}} : TRUE

Swimming_get_mean_speed(self) ==
    TrueDiv(TrueDiv(Mul(self.length_pool, self.count_pool),
                    ClassAttr(self.cls, "M_IN_KM")).val,
            self.duration)

get_mean_speed(self) ==
    IF Resolve(self.cls, "get_mean_speed") = "Swimming"
    THEN Swimming_get_mean_speed(self)
    ELSE Training_get_mean_speed(self)

Training_get_spent_calories(self) == Raise("NotImplementedError")

\* faulty variant: the shift is added instead of subtracted
Running_get_spent_calories_Plus(self) ==
    CHOOSE result \in
        {IF ~IsOk(mean_speed) THEN mean_speed
         ELSE Ok(Mul(TrueDiv(Mul(Add(Mul(ClassAttr(self.cls,
                                                "CAL_SPEED_FACTOR"),
                                      mean_speed.val),
                                  ClassAttr(self.cls, "CAL_SPEED_SHIFT")),
                              weight),
                          ClassAttr(self.cls, "M_IN_KM")).val,
                     duration_in_minutes)) :
            mean_speed \in {get_mean_speed(self)},
            weight \in {self.weight},
            duration_in_minutes \in
                {Mul(self.duration, ClassAttr(self.cls, "M_IN_HOUR"))}} : TRUE

Running_get_spent_calories(self) ==
    CHOOSE result \in
        {IF ~IsOk(mean_speed) THEN mean_speed
         ELSE Ok(Mul(TrueDiv(Mul(Sub(Mul(ClassAttr(self.cls,
                                                "CAL_SPEED_FACTOR"),
                                      mean_speed.val),
                                  ClassAttr(self.cls, "CAL_SPEED_SHIFT")),
                              weight),
                          ClassAttr(self.cls, "M_IN_KM")).val,
                     duration_in_minutes)) :
            mean_speed \in {get_mean_speed(self)},
            weight \in {self.weight},
            duration_in_minutes \in
                {Mul(self.duration, ClassAttr(self.cls, "M_IN_HOUR"))}} : TRUE

\* faulty variant: ordinary division where the source has //
SportsWalking_get_spent_calories_TrueDiv(self) ==
    CHOOSE result \in
        {IF ~IsOk(mean_speed) THEN mean_speed
         ELSE CHOOSE value \in
            {IF ~IsOk(quotient) THEN quotient
             ELSE Ok(Mul(Add(Mul(ClassAttr(self.cls, "CAL_WEIGHT_FACTOR"),
                                 weight),
                             Mul(Mul(quotient.val,
                                     ClassAttr(self.cls, "CAL_SPEED_FACTOR")),
                                 weight)),
                         duration_in_minutes)) :
                quotient \in
                    {TrueDiv(Pow(mean_speed.val,
                                  ClassAttr(self.cls, "CAL_SPEED_POWER").n),
                              height)}} : TRUE :
            mean_speed \in {get_mean_speed(self)},
            weight \in {self.weight},
            height \in {self.height},
            duration_in_minutes \in
                {Mul(self.duration, ClassAttr(self.cls, "M_IN_HOUR"))}} : TRUE

SportsWalking_get_spent_calories(self) ==
    CHOOSE result \in
        {IF ~IsOk(mean_speed) THEN mean_speed
         ELSE CHOOSE value \in
            {IF ~IsOk(quotient) THEN quotient
             ELSE Ok(Mul(Add(Mul(ClassAttr(self.cls, "CAL_WEIGHT_FACTOR"),
                                 weight),
                             Mul(Mul(quotient.val,
                                     ClassAttr(self.cls, "CAL_SPEED_FACTOR")),
                                 weight)),
                         duration_in_minutes)) :
                quotient \in
                    {FloorDiv(Pow(mean_speed.val,
                                  ClassAttr(self.cls, "CAL_SPEED_POWER").n),
                              height)}} : TRUE :
            mean_speed \in {get_mean_speed(self)},
            weight \in {self.weight},
            height \in {self.height},
            duration_in_minutes \in
                {Mul(self.duration, ClassAttr(self.cls, "M_IN_HOUR"))}} : TRUE

Swimming_get_spent_calories(self) ==
    CHOOSE result \in
        {IF ~IsOk(mean_speed) THEN mean_speed
         ELSE Ok(Mul(Mul(Add(mean_speed.val,
                             ClassAttr(self.cls, "CAL_SPEED_SHIFT")),
                         ClassAttr(self.cls, "CAL_SPEED_FACTOR")),
                     self.weight)) :
            mean_speed \in {get_mean_speed(self)}} : TRUE

\* self.get_spent_calories(): the definition of the class of self
get_spent_calories(self) ==
    CHOOSE result \in
        {CASE owner = "Running" -> Running_get_spent_calories(self)
           [] owner = "SportsWalking" -> SportsWalking_get_spent_calories(self)
           [] owner = "Swimming" -> Swimming_get_spent_calories(self)
           [] OTHER -> Training_get_spent_calories(self) :
            owner \in {Resolve(self.cls, "get_spent_calories")}} : TRUE

\* InfoMessage(training_type, duration, distance, speed, calories)
InfoMessage(training_type, duration, distance, speed, calories) ==
    [training_type |-> training_type, duration |-> duration,
     distance |-> distance, speed |-> speed, calories |-> calories]

\* faulty variant: the report is labelled with the name of the base class
Training_show_training_info_BaseName(self) ==
    CHOOSE result \in
        {IF ~IsOk(distance) THEN distance
         ELSE IF ~IsOk(mean_speed) THEN mean_speed
         ELSE IF ~IsOk(spent_calories) THEN spent_calories
         ELSE Ok(InfoMessage(training_type, duration, distance.val,
                             mean_speed.val, spent_calories.val)) :
            training_type \in {"Training"},
            duration \in {self.duration},
            distance \in {get_distance(self)},
            mean_speed \in {get_mean_speed(self)},
            spent_calories \in {get_spent_calories(self)}} : TRUE

Training_show_training_info(self) ==
    CHOOSE result \in
        {IF ~IsOk(distance) THEN distance
         ELSE IF ~IsOk(mean_speed) THEN mean_speed
         ELSE IF ~IsOk(spent_calories) THEN spent_calories
         ELSE Ok(InfoMessage(training_type, duration, distance.val,
                             mean_speed.val, spent_calories.val)) :
            training_type \in {TypeName(self)},
            duration \in {self.duration},
            distance \in {get_distance(self)},
            mean_speed \in {get_mean_speed(self)},
            spent_calories \in {get_spent_calories(self)}} : TRUE

show_training_info(self) == Training_show_training_info(self)

\* InfoMessage.get_message
get_message(info) ==
    "Training type: " \o info.training_type \o "; "
        \o "Duration: " \o Fmt3(info.duration) \o " h.; "
        \o "Distance: " \o Fmt3(info.distance) \o " km; "
        \o "Avg speed: " \o Fmt3(info.speed) \o " km/h; "
        \o "Calories burned: " \o Fmt3(info.calories) \o "."

----------------------------------------------------------------------------
(* The factory *)

\* the module-level dict WORKOUT_TYPE as the module body builds it
WorkoutTypeTable ==
    [c \in {"SWM", "RUN", "WLK"} |->
        CASE c = "SWM" -> "Swimming"
          [] c = "RUN" -> "Running"
          [] c = "WLK" -> "SportsWalking"]

\* the text of the ValueError
ValueErrorMessage(workout_type) ==
    "Invalid workout_type value: " \o workout_type

\* faulty variant: an unknown code falls back to the base class
read_package_Default(table, workout_type, data) ==
    IF workout_type \notin DOMAIN table
    THEN New("Training", data)
    ELSE New(table[workout_type], data)

\* read_package(workout_type, data) against the dict `table`
read_package(table, workout_type, data) ==
    IF workout_type \notin DOMAIN table
    THEN [exc |-> "ValueError", message |-> ValueErrorMessage(workout_type)]
    ELSE New(table[workout_type], data)

----------------------------------------------------------------------------
(* Inputs *)

\* workout codes a caller may pass: the registered ones and others
Codes == {"SWM", "RUN", "WLK", "XYZ", "run"}

ActionValues == {0, 720, 9000, 15000}
DurationValues == {0, 1, 2}
WeightValues == {75, 80}
\* fourth argument: height (SportsWalking) or length_pool (Swimming)
FourthValues == {0, 25, 30, 180}
\* fifth argument: count_pool (Swimming)
FifthValues == {0, 40}

\* the argument list of length n that starts a, d, w, x4, x5 and goes on
\* with ones
ArgList(a, d, w, x4, x5, n) ==
    [i \in 1..n |->
        CASE i = 1 -> Num(a)
          [] i = 2 -> Num(d)
          [] i = 3 -> Num(w)
          [] i = 4 -> Num(x4)
          [] i = 5 -> Num(x5)
          [] OTHER -> Num(1)]

\* argument lists of every length up to MaxArgs: too short, exact, too long
ArgLists ==
    {ArgList(a, d, w, x4, x5, n) :
        a \in ActionValues, d \in DurationValues, w \in WeightValues,
        x4 \in FourthValues, x5 \in FifthValues, n \in 0..MaxArgs}

\* the list `packages` of the __main__ block
EmbeddedPackages ==
    << <<"SWM", ArgList(720, 1, 80, 25, 40, 5)>>,
       <<"RUN", ArgList(15000, 1, 75, 0, 0, 3)>>,
       <<"WLK", ArgList(9000, 1, 75, 180, 0, 4)>> >>

\* packages a replacement input source may feed to the same loop: the
\* embedded ones, an unknown code, a zero duration, a short argument list
PackageValues ==
    {EmbeddedPackages[i] : i \in 1..3}
        \cup { <<"XYZ", ArgList(720, 1, 80, 25, 40, 5)>>,
               <<"RUN", ArgList(15000, 0, 75, 0, 0, 3)>>,
               <<"WLK", ArgList(9000, 1, 75, 180, 0, 3)>> }

PackageLists ==
    UNION {[1..n -> PackageValues] : n \in 0..MaxPackages}

----------------------------------------------------------------------------
(* State *)

VARIABLES
    WORKOUT_TYPE,   \* the module-level dict, code -> class
    request,        \* the arguments of the last read_package call of a client
    training,       \* the instance read_package returned, or None
    raised,         \* the exception the last call let escape, or None
    results,        \* what each method last returned on `training`
    calls,          \* how many method calls `training` has served
    packages,       \* the driver's list
    index,          \* the driver's position in `packages`, from 1
    pc,             \* where the driver is
    info,           \* the local `info` of main
    stdout          \* the lines printed so far

vars == <<WORKOUT_TYPE, request, training, raised, results, calls,
          packages, index, pc, info, stdout>>

None == [cls |-> "NoneType"]
NoException == [exc |-> "None"]
NotCalled == [exc |-> "NotCalled"]
NoInfo == [training_type |-> "Unbound"]
NoRequest == [workout_type |-> "", data |-> <<>>, made |-> FALSE]

Methods ==
    {"get_distance", "get_mean_speed", "get_spent_calories",
     "show_training_info"}

NoResults == [m \in Methods |-> NotCalled]

\* self.m() for each public method of an instance
Invoke(self, m) ==
    CASE m = "get_distance" -> get_distance(self)
      [] m = "get_mean_speed" -> get_mean_speed(self)
      [] m = "get_spent_calories" -> get_spent_calories(self)
      [] m = "show_training_info" -> show_training_info(self)

----------------------------------------------------------------------------
(* A client of the module: builds an instance, calls its methods, drops it *)

Init ==
    /\ WORKOUT_TYPE = WorkoutTypeTable
    /\ request = NoRequest
    /\ training = None
    /\ raised = NoException
    /\ results = NoResults
    /\ calls = 0
    /\ packages = <<>>
    /\ index = 1
    /\ pc = "client"
    /\ info = NoInfo
    /\ stdout = <<>>

\* training = read_package(workout_type, data)
ReadPackage ==
    /\ pc = "client"
    /\ ~request.made
    /\ \E workout_type \in Codes, data \in ArgLists :
        \E r \in {read_package(WORKOUT_TYPE, workout_type, data)} :
        /\ request' = [workout_type |-> workout_type, data |-> data,
                       made |-> TRUE]
        /\ IF IsOk(r)
           THEN training' = r.val /\ raised' = NoException
           ELSE training' = None /\ raised' = r
    /\ UNCHANGED <<WORKOUT_TYPE, results, calls, packages, index, pc, info,
                   stdout>>

\* faulty variant: get_spent_calories converts self.duration to minutes
\* in place
Call_Mutating(m) ==
    /\ pc = "client"
    /\ training # None
    /\ calls < MaxCalls
    /\ results' = [results EXCEPT ![m] = Invoke(training, m)]
    /\ calls' = calls + 1
    /\ training' = IF m = "get_spent_calories"
                   THEN [training EXCEPT !.duration =
                            Mul(@, ClassAttr(training.cls, "M_IN_HOUR"))]
                   ELSE training
    /\ UNCHANGED <<WORKOUT_TYPE, request, raised, packages, index,
                   pc, info, stdout>>

\* training.m(); the instance and the dict are only read
Call(m) ==
    /\ pc = "client"
    /\ training # None
    /\ calls < MaxCalls
    /\ results' = [results EXCEPT ![m] = Invoke(training, m)]
    /\ calls' = calls + 1
    /\ UNCHANGED <<WORKOUT_TYPE, request, training, raised, packages, index,
                   pc, info, stdout>>

CallGetDistance == Call("get_distance")

CallGetMeanSpeed == Call("get_mean_speed")

CallGetSpentCalories == Call("get_spent_calories")

CallShowTrainingInfo == Call("show_training_info")

\* the client lets go of the instance (or of the failed call)
Discard ==
    /\ pc = "client"
    /\ request.made
    /\ request' = NoRequest
    /\ training' = None
    /\ raised' = NoException
    /\ results' = NoResults
    /\ calls' = 0
    /\ UNCHANGED <<WORKOUT_TYPE, packages, index, pc, info, stdout>>

Next ==
    \/ ReadPackage
    \/ CallGetDistance
    \/ CallGetMeanSpeed
    \/ CallGetSpentCalories
    \/ CallShowTrainingInfo
    \/ Discard

Spec == Init /\ [][Next]_vars

----------------------------------------------------------------------------
(* The __main__ block *)

DriverInit ==
    /\ WORKOUT_TYPE = WorkoutTypeTable
    /\ request = NoRequest
    /\ training = None
    /\ raised = NoException
    /\ results = NoResults
    /\ calls = 0
    /\ packages \in PackageLists
    /\ index = 1
    /\ pc = "for"
    /\ info = NoInfo
    /\ stdout = <<>>

\* faulty variant: a package that cannot be read is skipped silently
LoopReadPackage_Swallow ==
    /\ pc = "for"
    /\ index <= Len(packages)
    /\ \E r \in {read_package(WORKOUT_TYPE, packages[index][1],
                                packages[index][2])} :
        IF IsOk(r)
        THEN training' = r.val /\ pc' = "main" /\ UNCHANGED <<raised, index>>
        ELSE index' = index + 1 /\ UNCHANGED <<training, pc, raised>>
    /\ UNCHANGED <<WORKOUT_TYPE, request, results, calls, packages, info,
                   stdout>>

\* for workout_type, data in packages: training = read_package(...)
LoopReadPackage ==
    /\ pc = "for"
    /\ index <= Len(packages)
    /\ \E r \in {read_package(WORKOUT_TYPE, packages[index][1],
                                packages[index][2])} :
        IF IsOk(r)
        THEN training' = r.val /\ pc' = "main" /\ UNCHANGED raised
        ELSE raised' = r /\ pc' = "traceback" /\ UNCHANGED training
    /\ UNCHANGED <<WORKOUT_TYPE, request, results, calls, packages, index,
                   info, stdout>>

\* main(training), first statement: info = training.show_training_info()
MainShowTrainingInfo ==
    /\ pc = "main"
    /\ \E r \in {show_training_info(training)} :
        IF IsOk(r)
        THEN info' = r.val /\ pc' = "print" /\ UNCHANGED raised
        ELSE raised' = r /\ pc' = "traceback" /\ UNCHANGED info
    /\ UNCHANGED <<WORKOUT_TYPE, request, training, results, calls, packages,
                   index, stdout>>

\* main(training), second statement: print(info.get_message()); the loop
\* then moves to the next package
MainPrint ==
    /\ pc = "print"
    /\ stdout' = Append(stdout, get_message(info))
    /\ index' = index + 1
    /\ pc' = "for"
    /\ UNCHANGED <<WORKOUT_TYPE, request, training, raised, results, calls,
                   packages, info>>

\* the list is exhausted: the script ends
LoopEnd ==
    /\ pc = "for"
    /\ index > Len(packages)
    /\ pc' = "exit"
    /\ UNCHANGED <<WORKOUT_TYPE, request, training, raised, results, calls,
                   packages, index, info, stdout>>

DriverNext ==
    \/ LoopReadPackage
    \/ MainShowTrainingInfo
    \/ MainPrint
    \/ LoopEnd

DriverSpec == DriverInit /\ [][DriverNext]_vars

----------------------------------------------------------------------------
(* Properties *)

Registered == {"SWM", "RUN", "WLK"}

\* the class each registered code stands for, as the specification lists it
VariantOf(code) ==
    CASE code = "SWM" -> "Swimming"
      [] code = "RUN" -> "Running"
      [] code = "WLK" -> "SportsWalking"

\* the number of arguments each registered code takes
ArityOf(code) ==
    CASE code = "SWM" -> 5
      [] code = "RUN" -> 3
      [] code = "WLK" -> 4

Called(m) == results[m] # NotCalled

\* a < b for two numbers
Less(a, b) == a.n * b.d < b.n * a.d

\* C1: a code other than SWM, RUN, WLK makes read_package fail, whatever the
\* argument list, with a ValueError whose message ends in the offending
\* code; no instance is built and nothing is computed from one.
C1_UnknownCodeRejected ==
    (request.made /\ request.workout_type \notin Registered) =>
        /\ raised.exc = "ValueError"
        /\ raised.message =
              "Invalid workout_type value: " \o request.workout_type
        /\ training = None
        /\ results = NoResults
        /\ calls = 0

C1_Witness ==
    /\ request.made
    /\ request.workout_type = "XYZ"
    /\ Len(request.data) = 5
    /\ raised.exc = "ValueError"

\* C2: a registered code with an argument list of the right length yields
\* an instance of the matching class whose fields are the arguments in
\* order: action, duration, weight, then height (WLK) or length_pool,
\* count_pool (SWM); ("SWM", [720, 1, 80, 25, 40]) yields Swimming with
\* action 720, duration 1, weight 80, length_pool 25, count_pool 40.
C2_FactoryMapsPositionally ==
    LET code == request.workout_type
        data == request.data
    IN  /\ (request.made /\ code \in Registered
                /\ Len(data) = ArityOf(code)) => training # None
        /\ (request.made /\ training # None) =>
            /\ code \in Registered
            /\ training.cls = VariantOf(code)
            /\ training.action = data[1]
            /\ training.duration = data[2]
            /\ training.weight = data[3]
            /\ code = "RUN" =>
                  DOMAIN training = {"cls", "action", "duration", "weight"}
            /\ code = "WLK" =>
                  /\ training.height = data[4]
                  /\ DOMAIN training =
                        {"cls", "action", "duration", "weight", "height"}
            /\ code = "SWM" =>
                  /\ training.length_pool = data[4]
                  /\ training.count_pool = data[5]
                  /\ DOMAIN training =
                        {"cls", "action", "duration", "weight",
                         "length_pool", "count_pool"}
        /\ (request.made /\ code = "SWM"
                /\ data = <<Num(720), Num(1), Num(80), Num(25), Num(40)>>) =>
              training = [cls |-> "Swimming", action |-> Num(720),
                          duration |-> Num(1), weight |-> Num(80),
                          length_pool |-> Num(25), count_pool |-> Num(40)]

C2_Witness ==
    /\ request.made
    /\ request.workout_type = "SWM"
    /\ request.data = <<Num(720), Num(1), Num(80), Num(25), Num(40)>>
    /\ training.cls = "Swimming"
    /\ training.length_pool = Num(25)
    /\ training.count_pool = Num(40)

\* C3: the report show_training_info returns for an instance from the
\* factory is labelled with the instance's own class (Running,
\* SportsWalking or Swimming, the one the code stands for), never with
\* Training, and its calories are those of that class's formula.
C3_ReportUsesVariantIdentity ==
    (Called("show_training_info") /\ IsOk(results["show_training_info"])) =>
        LET report == results["show_training_info"].val IN
        /\ report.training_type = VariantOf(request.workout_type)
        /\ report.training_type \in {"Running", "SportsWalking", "Swimming"}
        /\ report.training_type # "Training"
        /\ report.calories =
              (CASE request.workout_type = "RUN" ->
                        Running_get_spent_calories(training).val
                 [] request.workout_type = "WLK" ->
                        SportsWalking_get_spent_calories(training).val
                 [] request.workout_type = "SWM" ->
                        Swimming_get_spent_calories(training).val)

C3_Witness ==
    /\ Called("show_training_info")
    /\ IsOk(results["show_training_info"])
    /\ results["show_training_info"].val.training_type = "SportsWalking"
    /\ request.workout_type = "WLK"

\* the package ("RUN", [15000, 1, 75]) has been read and reported
RunSampleReported ==
    /\ request.made
    /\ request.workout_type = "RUN"
    /\ request.data = <<Num(15000), Num(1), Num(75)>>
    /\ Called("show_training_info")

\* C4 as stated: ("RUN", [15000, 1, 75]) is reported with distance 9.750,
\* mean speed 9.750 and calories 676.575.
C4_AsStated ==
    RunSampleReported =>
        /\ IsOk(results["show_training_info"])
        /\ Fmt3(results["show_training_info"].val.distance) = "9.750"
        /\ Fmt3(results["show_training_info"].val.speed) = "9.750"
        /\ Fmt3(results["show_training_info"].val.calories) = "676.575"

\* C4, amended: every Running report has calories
\* (18 * speed - 20) * weight / 1000 * (duration * 60), and
\* ("RUN", [15000, 1, 75]) is reported with distance 9.750, mean speed 9.750
\* and calories 699.750.
C4_RunningCalories ==
    /\ (request.workout_type = "RUN" /\ Called("show_training_info")
            /\ IsOk(results["show_training_info"])) =>
          LET report == results["show_training_info"].val IN
          report.calories =
              Mul(TrueDiv(Mul(Sub(Mul(Num(18), report.speed), Num(20)),
                              training.weight),
                          Num(1000)).val,
                  Mul(training.duration, Num(60)))
    /\ RunSampleReported =>
          /\ IsOk(results["show_training_info"])
          /\ Fmt3(results["show_training_info"].val.distance) = "9.750"
          /\ Fmt3(results["show_training_info"].val.speed) = "9.750"
          /\ Fmt3(results["show_training_info"].val.calories) = "699.750"

C4_Witness ==
    /\ RunSampleReported
    /\ IsOk(results["show_training_info"])
    /\ results["show_training_info"].val.calories = Q(2799, 4)

\* the largest integer not above the non-negative number x
FloorOf(x) == CHOOSE k \in 0..(x.n \div x.d) + 1 :
                  k * x.d <= x.n /\ x.n < (k + 1) * x.d

\* the mean speed of a walk: action * 0.65 / 1000 / duration
WalkSpeed(self) ==
    TrueDiv(TrueDiv(Mul(self.action, Q(65, 100)), Num(1000)).val,
            self.duration).val

\* C5: for a SportsWalking instance with duration > 0 and height > 0,
\* calories are (0.035 * weight + floor(speed^2 / height) * 0.029 * weight)
\* * (duration * 60), the middle term being the floor of the quotient; when
\* speed^2 < height they are 0.035 * weight * duration * 60; and
\* ("WLK", [9000, 1, 75, 180]) is reported as 5.850 km, 5.850 km/h, 157.500.
C5_WalkingCalories ==
    /\ (request.workout_type = "WLK" /\ training # None
            /\ training.duration.n > 0 /\ training.height.n > 0
            /\ Called("get_spent_calories")) =>
          LET speed == WalkSpeed(training)
              square == Mul(speed, speed)
              term == Num(FloorOf(TrueDiv(square, training.height).val))
          IN  /\ IsOk(results["get_spent_calories"])
              /\ results["get_spent_calories"].val =
                    Mul(Add(Mul(Q(35, 1000), training.weight),
                            Mul(Mul(term, Q(29, 1000)), training.weight)),
                        Mul(training.duration, Num(60)))
              /\ Less(square, training.height) =>
                    results["get_spent_calories"].val =
                        Mul(Mul(Mul(Q(35, 1000), training.weight),
                                training.duration), Num(60))
    /\ (request.workout_type = "WLK"
            /\ request.data = <<Num(9000), Num(1), Num(75), Num(180)>>
            /\ Called("show_training_info")) =>
          /\ IsOk(results["show_training_info"])
          /\ Fmt3(results["show_training_info"].val.distance) = "5.850"
          /\ Fmt3(results["show_training_info"].val.speed) = "5.850"
          /\ Fmt3(results["show_training_info"].val.calories) = "157.500"

\* a walk whose speed term is not zero: 9000 steps in 1 h, height 30
C5_Witness ==
    /\ request.workout_type = "WLK"
    /\ request.data = <<Num(9000), Num(1), Num(75), Num(30)>>
    /\ Called("get_spent_calories")
    /\ results["get_spent_calories"] = Ok(Num(288))

\* C6: the mean speed of a Swimming instance is
\* length_pool * count_pool / 1000 / duration and its calories are
\* (speed + 1.1) * 2 * weight; an instance that differs from it only in
\* action has the same mean speed and calories, and another distance.
C6_SwimmingIgnoresAction ==
    (request.workout_type = "SWM" /\ training # None
        /\ training.duration.n # 0) =>
        LET speed == TrueDiv(TrueDiv(Mul(training.length_pool,
                                         training.count_pool),
                                     Num(1000)).val,
                             training.duration).val
        IN  /\ Called("get_mean_speed") =>
                  results["get_mean_speed"] = Ok(speed)
            /\ Called("get_spent_calories") =>
                  results["get_spent_calories"] =
                      Ok(Mul(Mul(Add(speed, Q(11, 10)), Num(2)),
                             training.weight))
            /\ \A a \in ActionValues :
                  LET other == [training EXCEPT !.action = Num(a)] IN
                  /\ Called("get_mean_speed") =>
                        get_mean_speed(other) = results["get_mean_speed"]
                  /\ Called("get_spent_calories") =>
                        get_spent_calories(other) =
                            results["get_spent_calories"]
                  /\ Called("show_training_info") =>
                        /\ show_training_info(other).val.speed =
                              results["show_training_info"].val.speed
                        /\ show_training_info(other).val.calories =
                              results["show_training_info"].val.calories
                  /\ (Called("get_distance") /\ Num(a) # training.action) =>
                        get_distance(other) # results["get_distance"]

C6_Witness ==
    /\ request.workout_type = "SWM"
    /\ training # None
    /\ training.action = Num(720)
    /\ Called("get_mean_speed")
    /\ Called("get_spent_calories")
    /\ Called("get_distance")
    /\ results["get_mean_speed"] = Ok(Num(1))
    /\ results["get_spent_calories"] = Ok(Num(336))
    /\ get_distance([training EXCEPT !.action = Num(9000)])
          # results["get_distance"]

\* the metres one action unit covers, per registered code
UnitOf(code) == IF code = "SWM" THEN Q(138, 100) ELSE Q(65, 100)

\* C7: for every variant get_distance is action * unit / 1000, the unit
\* being 0.65 for Running and SportsWalking and 1.38 for Swimming; for
\* Running and SportsWalking get_mean_speed is that distance / duration.
C7_DistanceAndSpeed ==
    (request.made /\ training # None) =>
        LET distance ==
                TrueDiv(Mul(training.action, UnitOf(request.workout_type)),
                        Num(1000))
        IN  /\ Called("get_distance") => results["get_distance"] = distance
            /\ (Called("show_training_info")
                    /\ IsOk(results["show_training_info"])) =>
                  results["show_training_info"].val.distance = distance.val
            /\ (Called("get_mean_speed") /\ training.duration.n # 0
                    /\ request.workout_type \in {"RUN", "WLK"}) =>
                  results["get_mean_speed"] =
                      TrueDiv(distance.val, training.duration)

C7_Witness ==
    /\ request.workout_type = "SWM"
    /\ training # None
    /\ training.action = Num(720)
    /\ results["get_distance"] = Ok(Q(9936, 10000))

\* the report of a package: what read_package and show_training_info make
\* of it
ReportOf(package) ==
    LET r == read_package(WorkoutTypeTable, package[1], package[2]) IN
    IF IsOk(r) THEN show_training_info(r.val) ELSE r

\* C8: the driver takes the packages in order and prints one line per
\* package: when it is at package number index, stdout holds index - 1
\* lines, the k-th being the rendered report of the k-th package; it stops
\* at the first package that fails, with the lines of the packages before it
\* and no other; run to the end it has printed a line for every package,
\* and for the embedded list these are Swimming, Running, SportsWalking.
C8_OneLinePerPackageInOrder ==
    /\ index \in 1..Len(packages) + 1
    /\ Len(stdout) = index - 1
    /\ \A k \in 1..Len(stdout) :
          /\ IsOk(ReportOf(packages[k]))
          /\ stdout[k] = get_message(ReportOf(packages[k]).val)
    /\ pc = "traceback" =>
          /\ index <= Len(packages)
          /\ ~IsOk(ReportOf(packages[index]))
          /\ raised = ReportOf(packages[index])
    /\ pc = "exit" => Len(stdout) = Len(packages)
    /\ (pc = "exit" /\ packages = EmbeddedPackages) =>
          stdout =
            << "Training type: Swimming; Duration: 1.000 h.; "
                 \o "Distance: 0.994 km; Avg speed: 1.000 km/h; "
                 \o "Calories burned: 336.000.",
               "Training type: Running; Duration: 1.000 h.; "
                 \o "Distance: 9.750 km; Avg speed: 9.750 km/h; "
                 \o "Calories burned: 699.750.",
               "Training type: SportsWalking; Duration: 1.000 h.; "
                 \o "Distance: 5.850 km; Avg speed: 5.850 km/h; "
                 \o "Calories burned: 157.500." >>

\* the embedded list, run to the end
C8_Witness ==
    /\ pc = "exit"
    /\ packages = EmbeddedPackages
    /\ Len(stdout) = 3

\* a list whose second package fails, after one printed line
C8_WitnessFailure ==
    /\ pc = "traceback"
    /\ Len(packages) = 3
    /\ index = 2
    /\ Len(stdout) = 1

\* C9: a method call on an instance changes neither the instance's fields
\* nor the WORKOUT_TYPE dict, and a method that is called again on the
\* instance returns what it returned before.
C9_CallsAreIdempotent ==
    [][(training # None /\ calls' = calls + 1) =>
          /\ training' = training
          /\ WORKOUT_TYPE' = WORKOUT_TYPE
          /\ \A m \in Methods : Called(m) => results'[m] = results[m]
          /\ \A m \in Methods : results'[m] # NotCalled =>
                results'[m] = Invoke(training', m)]_vars

\* get_spent_calories has been called three times on one instance, and
\* nothing else
C9_Witness ==
    /\ calls = 3
    /\ training # None
    /\ Called("get_spent_calories")
    /\ IsOk(results["get_spent_calories"])
    /\ \A m \in Methods \ {"get_spent_calories"} : ~Called(m)

\* C10: with duration == 0, get_mean_speed raises ZeroDivisionError for
\* every variant (there is no value), and so do get_spent_calories and
\* show_training_info, while get_distance returns a value.
C10_ZeroDurationRaises ==
    (training # None /\ training.duration.n = 0) =>
        /\ \A m \in {"get_mean_speed", "get_spent_calories",
                     "show_training_info"} :
              Called(m) =>
                  /\ results[m].exc = "ZeroDivisionError"
                  /\ DOMAIN results[m] = {"exc"}
        /\ Called("get_distance") =>
              /\ IsOk(results["get_distance"])
              /\ results["get_distance"].val =
                    TrueDiv(Mul(training.action,
                                UnitOf(request.workout_type)),
                            Num(1000)).val

C10_Witness ==
    /\ training # None
    /\ training.cls = "Swimming"
    /\ training.duration = Num(0)
    /\ Called("get_mean_speed")
    /\ Called("show_training_info")
    /\ Called("get_distance")
    /\ results["show_training_info"].exc = "ZeroDivisionError"

====
